---- MODULE Spec2Model ----
(***************************************************************************)
(* redis-cleaner: for every configured rule, a task runs one Lua script in *)
(* the store that SCANs the keys matching the rule's pattern and gives an  *)
(* expiration to those that have none.  main spawns one task per rule,     *)
(* joins them in order and derives the notification colour.                *)
(***************************************************************************)
EXTENDS Integers, Sequences, FiniteSets, TLC

\* ------------------------------------------------------------------ bounds
MaxRules == 2       \* longest rule list of a run
MaxRuns  == 2       \* process runs in a behaviour
MaxPages == 2       \* pages of a full SCAN iteration

\* ------------------------------------------------------- program constants
max_iterations == 100000    \* local max_iterations = 100000
NoTTL == -1                 \* if ttl == -1
StartCursor == 0            \* local cursor = "0" / until cursor == "0"

\* -------------------------------------------------------------- the store
Keys == {"a1", "b1"}
KeyOrder == <<"a1", "b1">>
Absent == 0 - 2             \* reply of TTL for a key that does not exist
\* what a key can be when a run starts: absent, persistent, expiring in 7 s
InitialTTLs == {Absent, NoTTL, 7}

\* MATCH of SCAN: glob matching of the two patterns used by the rules
Matches(pattern, key) ==
    \/ pattern = "*"
    \/ pattern = "a*" /\ key = "a1"

RuleA   == [name |-> "ra", pattern |-> "a*", ttl_seconds |-> 2, batch |-> 1]
RuleAll == [name |-> "rall", pattern |-> "*", ttl_seconds |-> 3, batch |-> 2]
RuleSet == {RuleA, RuleAll}
Patterns == {c.pattern : c \in RuleSet}

\* reply of TTL key
TTL(s, key) == s[key]

\* effect of EXPIRE key seconds
Expire(s, key, seconds) ==
    IF s[key] = Absent THEN s
    ELSE IF seconds <= 0 THEN [s EXCEPT ![key] = Absent]
    ELSE [s EXCEPT ![key] = seconds]

\* A page is the keys one SCAN call returns; a layout is the pages of one
\* iteration over the keyspace and the cursor the last page returns
\* (0: iteration complete, j > 0: back to the page after cursor j).
PageOf(S) == SelectSeq(KeyOrder, LAMBDA k : k \in S)
PagesFor(pattern) == {PageOf(S) : S \in SUBSET {k \in Keys : Matches(pattern, k)}}

RECURSIVE SeqsUpTo(_, _)
SeqsUpTo(S, n) ==
    IF n = 0 THEN {<<>>}
    ELSE LET shorter == SeqsUpTo(S, n - 1)
         IN  shorter \cup {Append(q, x) : q \in {p \in shorter : Len(p) = n - 1}, x \in S}

Returned(lay) == UNION {{lay.pages[i][j] : j \in 1..Len(lay.pages[i])} : i \in 1..Len(lay.pages)}

\* SCAN's guarantee: a full iteration returns every key present throughout
Covers(lay, pattern, s) ==
    \A k \in Keys : (Matches(pattern, k) /\ s[k] # Absent) => k \in Returned(lay)

CompleteLayouts(pattern, s, n) ==
    {lay \in [pages : SeqsUpTo(PagesFor(pattern), n) \ {<<>>}, last : {StartCursor}] :
        Covers(lay, pattern, s)}

\* a store whose cursors cycle: the first page holds every matching key, the
\* second page returns its own cursor
CyclicLayouts(pattern) ==
    [pages : {<<PageOf({k \in Keys : Matches(pattern, k)}), q>> : q \in PagesFor(pattern)},
     last : {1}]

\* reply of SCAN cursor MATCH pattern COUNT count: <<next cursor, keys>>
ScanReply(lay, cursor) ==
    LET i == cursor + 1
    IN  [cursor |-> IF i < Len(lay.pages) THEN i ELSE lay.last,
         keys   |-> lay.pages[i]]

VARIABLES
    configs,      \* Vec<CleanupConfig> read from the config file
    dry_run,      \* args.dry_run
    run,          \* number of the current process run
    prev,         \* what the previous run reported
    store,        \* key -> reply of TTL
    layout,       \* pattern -> layout of its SCAN iteration
    scriptOwner,  \* task whose script the store is executing, 0: none
    mainPc,       \* position of main
    spawned,      \* handles.len()
    results,      \* Vec<ProcessingResult> of main
    color,        \* colour of the notification
    task,         \* task -> position and locals of cleanup/expire_keys/script
    ops,          \* task -> store calls issued by its script
    snap,         \* task -> the store when its script started
    finishOrder   \* tasks in the order they completed

vars == <<configs, dry_run, run, prev, store, layout, scriptOwner, mainPc,
          spawned, results, color, task, ops, snap, finishOrder>>

Tasks == 1..Len(configs)
task_count == Len(configs)

Green == "#2EB67D"
Red == "#E01E5A"

NoRet == [err |-> "", processed |-> 0, iterations |-> 0]
NewTask == [pc |-> "idle", cursor |-> StartCursor, next |-> StartCursor,
            iterations |-> 0, processed |-> 0, pending |-> <<>>, ret |-> NoRet,
            start |-> 0, execution_time |-> 0]
NoOps == [scan |-> 0, ttl |-> 0, expire |-> 0, noTtl |-> 0, expired |-> {}, counted |-> {}]
NoPrev == [dry_run |-> FALSE, results |-> <<>>, returned |-> FALSE]

DefaultLayout(pattern, s) ==
    [pages |-> <<PageOf({k \in Keys : Matches(pattern, k)})>>, last |-> StartCursor]

InitCommon ==
    /\ dry_run \in BOOLEAN
    /\ run = 1
    /\ prev = NoPrev
    /\ scriptOwner = 0
    /\ mainPc = "spawn"
    /\ spawned = 0
    /\ results = <<>>
    /\ color = Green
    /\ task = [r \in Tasks |-> NewTask]
    /\ ops = [r \in Tasks |-> NoOps]
    /\ snap = [r \in Tasks |-> store]
    /\ finishOrder = <<>>

\* The coordinator: up to MaxRules rules, every SCAN iteration of one page.
Init ==
    /\ configs \in SeqsUpTo(RuleSet, MaxRules)
    /\ store \in [Keys -> InitialTTLs]
    /\ layout = [p \in Patterns |-> DefaultLayout(p, store)]
    /\ InitCommon

\* ------------------------------------------------------------------- main
\* for i in 0..task_count { handles.push(tokio::spawn(cleanup(..))) }
SpawnTask ==
    /\ mainPc = "spawn"
    /\ spawned < task_count
    /\ spawned' = spawned + 1
    /\ task' = [task EXCEPT ![spawned + 1].pc = "spawned"]
    /\ UNCHANGED <<configs, dry_run, run, prev, store, layout, scriptOwner,
                   mainPc, results, color, ops, snap, finishOrder>>

SpawnLoopEnd ==
    /\ mainPc = "spawn"
    /\ spawned = task_count
    /\ mainPc' = "join"
    /\ UNCHANGED <<configs, dry_run, run, prev, store, layout, scriptOwner,
                   spawned, results, color, task, ops, snap, finishOrder>>

\* ProcessingResult { config, processed_keys, iterations, error_msg, .. }
ProcessingResult(conf, ret) ==
    [config |-> conf, processed_keys |-> ret.processed,
     iterations |-> ret.iterations, error_msg |-> ret.err]

\* the handle main awaits next
NextHandle == Len(results) + 1

\* mutant: the outcomes are collected newest first
JoinTaskPrepends ==
    /\ mainPc = "join"
    /\ NextHandle <= task_count
    /\ task[NextHandle].pc = "done"
    /\ results' = <<ProcessingResult(configs[NextHandle], task[NextHandle].ret)>> \o results
    /\ UNCHANGED <<configs, dry_run, run, prev, store, layout, scriptOwner,
                   mainPc, spawned, color, task, ops, snap, finishOrder>>

\* results.push(job.await.unwrap()) for a task that returned
JoinTask ==
    /\ mainPc = "join"
    /\ NextHandle <= task_count
    /\ task[NextHandle].pc = "done"
    /\ results' = Append(results, ProcessingResult(configs[NextHandle], task[NextHandle].ret))
    /\ UNCHANGED <<configs, dry_run, run, prev, store, layout, scriptOwner,
                   mainPc, spawned, color, task, ops, snap, finishOrder>>

\* job.await is Err(JoinError) for a task that panicked: unwrap panics main
JoinPanic ==
    /\ mainPc = "join"
    /\ NextHandle <= task_count
    /\ task[NextHandle].pc = "panicked"
    /\ mainPc' = "panicked"
    /\ UNCHANGED <<configs, dry_run, run, prev, store, layout, scriptOwner,
                   spawned, results, color, task, ops, snap, finishOrder>>

\* error_msg.trim().is_empty()
IsBlank(msg) == msg = ""

\* mutant: every outcome sets the colour, the last one decides
ColorOfLast(rs) ==
    IF rs = <<>> \/ IsBlank(rs[Len(rs)].error_msg) THEN Green ELSE Red

\* let mut color = "#2EB67D"; for res in results { if !blank { color = "#E01E5A" } }
ColorOf(rs) == IF \A i \in 1..Len(rs) : IsBlank(rs[i].error_msg) THEN Green ELSE Red

Report ==
    /\ mainPc = "join"
    /\ NextHandle > task_count
    /\ color' = ColorOf(results)
    /\ mainPc' = "done"
    /\ UNCHANGED <<configs, dry_run, run, prev, store, layout, scriptOwner,
                   spawned, results, task, ops, snap, finishOrder>>

\* ---------------------------------------------------------------- a task
\* the time of a task: the store calls its script has issued so far
Now(r) == ops[r].scan + ops[r].ttl + ops[r].expire

\* start.elapsed()
Elapsed(start, now) == now - start

\* let start = Instant::now(); let duration = start.elapsed();
\* client.get_connection().unwrap(): Ok
GetConnection(r) ==
    /\ task[r].pc = "spawned"
    /\ task' = [task EXCEPT ![r].pc = "connected",
                            ![r].start = Now(r),
                            ![r].execution_time = Elapsed(Now(r), Now(r))]
    /\ UNCHANGED <<configs, dry_run, run, prev, store, layout, scriptOwner,
                   mainPc, spawned, results, color, ops, snap, finishOrder>>

\* client.get_connection().unwrap(): Err, the task panics
ConnectionFail(r) ==
    /\ task[r].pc = "spawned"
    /\ task' = [task EXCEPT ![r].pc = "panicked",
                            ![r].start = Now(r),
                            ![r].execution_time = Elapsed(Now(r), Now(r))]
    /\ finishOrder' = Append(finishOrder, r)
    /\ UNCHANGED <<configs, dry_run, run, prev, store, layout, scriptOwner,
                   mainPc, spawned, results, color, ops, snap>>

\* mutant: a loop that tests the cursor before it fetches a page
InvokeScriptTestsFirst(r) ==
    /\ task[r].pc = "connected"
    /\ scriptOwner = 0
    /\ scriptOwner' = r
    /\ task' = [task EXCEPT ![r].pc = "keys", ![r].iterations = 0, ![r].pending = <<>>,
                            ![r].processed = 0, ![r].cursor = StartCursor,
                            ![r].next = StartCursor]
    /\ snap' = [snap EXCEPT ![r] = store]
    /\ UNCHANGED <<configs, dry_run, run, prev, store, layout, mainPc,
                   spawned, results, color, ops, finishOrder>>

\* mutant: the store starts a script while another one runs
InvokeScriptAnyTime(r) ==
    /\ task[r].pc = "connected"
    /\ scriptOwner' = r
    /\ task' = [task EXCEPT ![r].pc = "scan", ![r].iterations = 0,
                            ![r].processed = 0, ![r].cursor = StartCursor]
    /\ snap' = [snap EXCEPT ![r] = store]
    /\ UNCHANGED <<configs, dry_run, run, prev, store, layout, mainPc,
                   spawned, results, color, ops, finishOrder>>

\* script.invoke(): the store starts the script; a script runs alone
InvokeScript(r) ==
    /\ task[r].pc = "connected"
    /\ scriptOwner = 0
    /\ scriptOwner' = r
    /\ task' = [task EXCEPT ![r].pc = "scan", ![r].iterations = 0,
                            ![r].processed = 0, ![r].cursor = StartCursor]
    /\ snap' = [snap EXCEPT ![r] = store]
    /\ UNCHANGED <<configs, dry_run, run, prev, store, layout, mainPc,
                   spawned, results, color, ops, finishOrder>>

\* mutant: the counts of the script survive its failure
ErrRetKeepsCounts(t, what) ==
    [err |-> what, processed |-> t.processed, iterations |-> t.iterations]

\* Err(err) => return (Some(Box::new(err)), 0, 0)
ErrRet(t, what) == [err |-> what, processed |-> 0, iterations |-> 0]

\* mutant: the two numbers of the reply are taken in the other order
OkRetSwapped(t) == [err |-> "", processed |-> t.iterations, iterations |-> t.processed]

\* Ok(v) => return (None, processed, iterations)
OkRet(t) == [err |-> "", processed |-> t.processed, iterations |-> t.iterations]

\* script.invoke() fails before the store runs the script
InvokeFail(r) ==
    /\ task[r].pc = "connected"
    /\ task' = [task EXCEPT ![r].pc = "done", ![r].ret = ErrRet(task[r], "invoke")]
    /\ UNCHANGED <<configs, dry_run, run, prev, store, layout, scriptOwner,
                   mainPc, spawned, results, color, ops, snap>>
    /\ finishOrder' = Append(finishOrder, r)

\* iterations = iterations + 1; result = redis.call("SCAN", cursor, ..)
ScanPage(r) ==
    /\ task[r].pc = "scan"
    /\ scriptOwner = r
    /\ LET reply == ScanReply(layout[configs[r].pattern], task[r].cursor)
       IN  task' = [task EXCEPT ![r].pc = "keys",
                                ![r].iterations = task[r].iterations + 1,
                                ![r].next = reply.cursor,
                                ![r].pending = reply.keys]
    /\ ops' = [ops EXCEPT ![r].scan = ops[r].scan + 1]
    /\ UNCHANGED <<configs, dry_run, run, prev, store, layout, scriptOwner,
                   mainPc, spawned, results, color, snap, finishOrder>>

\* a redis.call raises: the script ends and invoke returns Err
ScanFail(r) ==
    /\ task[r].pc = "scan"
    /\ scriptOwner = r
    /\ scriptOwner' = 0
    /\ task' = [task EXCEPT ![r].pc = "done",
                            ![r].iterations = task[r].iterations + 1,
                            ![r].ret = ErrRet(task[r], "scan")]
    /\ ops' = [ops EXCEPT ![r].scan = ops[r].scan + 1]
    /\ UNCHANGED <<configs, dry_run, run, prev, store, layout, mainPc,
                   spawned, results, color, snap>>
    /\ finishOrder' = Append(finishOrder, r)

\* mutant: every negative reply of TTL counts as "no expiration"
EligibleIfNegative(ttl) == ttl < 0

\* mutant: every key that exists is eligible
EligibleIfPresent(ttl) == ttl # Absent

\* if ttl == -1
Eligible(ttl) == ttl = NoTTL

\* mutant: the dry-run flag is not looked at
MutatesAlways(dry) == TRUE

\* if dry_run == 0 then redis.call("EXPIRE", v, expire_num)
Mutates(dry) == ~dry

\* one turn of: for _, v in ipairs(result[2]) do .. end
ProcessKey(r) ==
    /\ task[r].pc = "keys"
    /\ scriptOwner = r
    /\ task[r].pending # <<>>
    /\ LET v == Head(task[r].pending)
           ttl == TTL(store, v)
           expire == Eligible(ttl) /\ Mutates(dry_run)
       IN  /\ task' = [task EXCEPT ![r].pending = Tail(task[r].pending),
                                   ![r].processed = IF Eligible(ttl) THEN task[r].processed + 1
                                                    ELSE task[r].processed]
           /\ store' = IF expire THEN Expire(store, v, configs[r].ttl_seconds) ELSE store
           /\ ops' = [ops EXCEPT ![r].ttl = ops[r].ttl + 1,
                                 ![r].expire = IF expire THEN ops[r].expire + 1 ELSE ops[r].expire,
                                 ![r].noTtl = IF ttl = NoTTL THEN ops[r].noTtl + 1 ELSE ops[r].noTtl,
                                 ![r].expired = IF expire THEN ops[r].expired \cup {v} ELSE ops[r].expired,
                                 ![r].counted = IF Eligible(ttl) THEN ops[r].counted \cup {v}
                                                ELSE ops[r].counted]
    /\ UNCHANGED <<configs, dry_run, run, prev, layout, scriptOwner, mainPc,
                   spawned, results, color, snap, finishOrder>>

\* mutant: the error of the call is noted and the loop goes on (a pcall)
TtlFailGoesOn(r) ==
    /\ task[r].pc = "keys"
    /\ scriptOwner = r
    /\ task[r].pending # <<>>
    /\ task' = [task EXCEPT ![r].pending = Tail(task[r].pending),
                            ![r].ret = ErrRet(task[r], "ttl")]
    /\ ops' = [ops EXCEPT ![r].ttl = ops[r].ttl + 1]
    /\ UNCHANGED <<configs, dry_run, run, prev, store, layout, scriptOwner, mainPc,
                   spawned, results, color, snap, finishOrder>>

\* redis.call("TTL", v) raises
TtlFail(r) ==
    /\ task[r].pc = "keys"
    /\ scriptOwner = r
    /\ task[r].pending # <<>>
    /\ scriptOwner' = 0
    /\ task' = [task EXCEPT ![r].pc = "done", ![r].ret = ErrRet(task[r], "ttl")]
    /\ ops' = [ops EXCEPT ![r].ttl = ops[r].ttl + 1]
    /\ UNCHANGED <<configs, dry_run, run, prev, store, layout, mainPc,
                   spawned, results, color, snap>>
    /\ finishOrder' = Append(finishOrder, r)

\* redis.call("EXPIRE", v, expire_num) raises, after processed was incremented
ExpireFail(r) ==
    /\ task[r].pc = "keys"
    /\ scriptOwner = r
    /\ task[r].pending # <<>>
    /\ Eligible(TTL(store, Head(task[r].pending)))
    /\ Mutates(dry_run)
    /\ scriptOwner' = 0
    /\ task' = [task EXCEPT ![r].pc = "done",
                            ![r].processed = task[r].processed + 1,
                            ![r].ret = ErrRet(task[r], "expire")]
    /\ ops' = [ops EXCEPT ![r].ttl = ops[r].ttl + 1, ![r].expire = ops[r].expire + 1,
                          ![r].noTtl = ops[r].noTtl + 1,
                          ![r].counted = ops[r].counted \cup {Head(task[r].pending)}]
    /\ UNCHANGED <<configs, dry_run, run, prev, store, layout, mainPc,
                   spawned, results, color, snap>>
    /\ finishOrder' = Append(finishOrder, r)

\* mutant: the cap is compared one page too late
NextCursorOffByOne(iterations, reply) ==
    IF iterations <= max_iterations THEN reply ELSE StartCursor

\* mutant: the loop ends after the first page
NextCursorOnePage(iterations, reply) == StartCursor

\* if iterations < max_iterations then cursor = result[1] else cursor = "0" end
NextCursor(iterations, reply) ==
    IF iterations < max_iterations THEN reply ELSE StartCursor

\* until cursor == "0"; return {processed, iterations}
LoopUntil(r) ==
    /\ task[r].pc = "keys"
    /\ scriptOwner = r
    /\ task[r].pending = <<>>
    /\ LET cursor == NextCursor(task[r].iterations, task[r].next)
       IN  IF cursor = StartCursor
           THEN /\ task' = [task EXCEPT ![r].pc = "done", ![r].cursor = cursor,
                                        ![r].ret = OkRet(task[r])]
                /\ scriptOwner' = 0
                /\ finishOrder' = Append(finishOrder, r)
           ELSE /\ task' = [task EXCEPT ![r].pc = "scan", ![r].cursor = cursor]
                /\ UNCHANGED <<scriptOwner, finishOrder>>
    /\ UNCHANGED <<configs, dry_run, run, prev, store, layout, mainPc,
                   spawned, results, color, ops, snap>>

\* ------------------------------------------------------------ the next run
\* the process has ended and is started again on the same config and store
Restart ==
    /\ mainPc \in {"done", "panicked"}
    /\ scriptOwner = 0
    /\ run < MaxRuns
    /\ run' = run + 1
    /\ prev' = [dry_run |-> dry_run, results |-> results, returned |-> mainPc = "done"]
    /\ dry_run' \in BOOLEAN
    /\ mainPc' = "spawn"
    /\ spawned' = 0
    /\ results' = <<>>
    /\ color' = Green
    /\ task' = [r \in Tasks |-> NewTask]
    /\ ops' = [r \in Tasks |-> NoOps]
    /\ snap' = [r \in Tasks |-> store]
    /\ finishOrder' = <<>>
    /\ UNCHANGED <<configs, store, layout, scriptOwner>>

Main ==
    \/ SpawnTask
    \/ SpawnLoopEnd
    \/ JoinTask
    \/ Report

Next ==
    \/ Main
    \/ JoinPanic
    \/ \E r \in Tasks : GetConnection(r)
    \/ \E r \in Tasks : ConnectionFail(r)
    \/ \E r \in Tasks : InvokeScript(r)
    \/ \E r \in Tasks : InvokeFail(r)
    \/ \E r \in Tasks : ScanPage(r)
    \/ \E r \in Tasks : ScanFail(r)
    \/ \E r \in Tasks : ProcessKey(r)
    \/ \E r \in Tasks : TtlFail(r)
    \/ \E r \in Tasks : ExpireFail(r)
    \/ \E r \in Tasks : LoopUntil(r)

Spec == Init /\ [][Next]_vars

\* One rule, run again and again on the same store, whose SCAN iteration may
\* take several pages, return a key twice and return keys that are gone.
InitRuns ==
    /\ configs \in {<<c>> : c \in RuleSet}
    /\ store \in [Keys -> InitialTTLs]
    /\ \E lay \in CompleteLayouts(configs[1].pattern, store, MaxPages) :
          layout = [p \in Patterns |-> IF p = configs[1].pattern THEN lay
                                       ELSE DefaultLayout(p, store)]
    /\ InitCommon

NextRuns == Next \/ Restart

SpecRuns == InitRuns /\ [][NextRuns]_vars

\* One rule against a store that answers every call and whose cursors cycle.
InitCap ==
    /\ configs = <<RuleA>>
    /\ store = [k \in Keys |-> IF k = "a1" THEN NoTTL ELSE 7]
    /\ \E lay \in CyclicLayouts(configs[1].pattern) :
          layout = [p \in Patterns |-> IF p = configs[1].pattern THEN lay
                                       ELSE DefaultLayout(p, store)]
    /\ InitCommon

NextCap ==
    \/ Main
    \/ \E r \in Tasks : GetConnection(r)
    \/ \E r \in Tasks : InvokeScript(r)
    \/ \E r \in Tasks : ScanPage(r)
    \/ \E r \in Tasks : ProcessKey(r)
    \/ \E r \in Tasks : LoopUntil(r)

SpecCap == InitCap /\ [][NextCap]_vars

\* One rule, one run, SCAN iterations of several pages, against a store that
\* answers every call.
SpecAnswering == InitRuns /\ [][NextCap]_vars

\* ------------------------------------------------------------- the claims
Pattern(r) == configs[r].pattern
Succeeded(r) == task[r].pc = "done" /\ task[r].ret.err = ""
Failed(r) == task[r].pc = "done" /\ task[r].ret.err # ""
\* the keys of rule r's pattern that had no expiration when its script started
PersistentAtStart(r) == {k \in Keys : Matches(Pattern(r), k) /\ snap[r][k] = NoTTL}

\* C1: TTL gating. Whenever a script has processed a key returned by SCAN, its
\* counter went up by one exactly if the key's TTL reply was -1, the key got
\* the rule's expiration exactly if, in addition, the run is not a dry run,
\* and no step ever changes a key whose TTL reply is not -1 (one that expires
\* already, or is absent).
C1_TTLGating ==
    [][/\ \A k \in Keys : store[k] # NoTTL => store'[k] = store[k]
       /\ \A r \in Tasks :
             (/\ task[r].pc = "keys"
              /\ task[r].pending # <<>>
              /\ task'[r].pc = "keys"
              /\ task'[r] # task[r])
             => LET v == Head(task[r].pending)
                IN  /\ task'[r].processed =
                           task[r].processed + (IF store[v] = NoTTL THEN 1 ELSE 0)
                    /\ store' = IF store[v] = NoTTL /\ ~dry_run
                                THEN [store EXCEPT ![v] = configs[r].ttl_seconds]
                                ELSE store
      ]_vars

\* a sweep of "*" met a persistent key and an absent one: it counted and
\* expired the first and left the second alone
C1_Witness ==
    \E r \in Tasks :
        /\ Succeeded(r)
        /\ ~dry_run
        /\ snap[r]["a1"] = NoTTL
        /\ snap[r]["b1"] = Absent
        /\ ops[r].ttl >= 2
        /\ task[r].ret.processed = 1
        /\ store["a1"] = configs[r].ttl_seconds
        /\ store["b1"] = Absent

\* C2: dry run does not mutate. In a dry run no script issues an EXPIRE and
\* the store is what it was when the sweep began.
C2_DryRunDoesNotMutate ==
    dry_run => \A r \in Tasks : ops[r].expire = 0 /\ store = snap[r]

\* a dry run went over two pages and counted a key
C2_Witness ==
    /\ dry_run
    /\ \E r \in Tasks : Succeeded(r) /\ ops[r].scan >= 2 /\ task[r].ret.processed >= 1

\* C3: failure isolation. When the store calls of exactly one rule always fail
\* (so its first call, get_connection, fails) and those of the other rules
\* never fail, main comes to return one outcome per rule, exactly one of them
\* with an error, the others with the counts of their own sweep.
C3_FailureIsolation ==
    (\E f \in Tasks :
        /\ task_count >= 2
        /\ task[f].pc = "panicked"
        /\ \A r \in Tasks \ {f} : Succeeded(r))
    => /\ mainPc # "panicked"
       /\ mainPc = "done" =>
            /\ Len(results) = task_count
            /\ Cardinality({i \in 1..Len(results) : results[i].error_msg # ""}) = 1
            /\ \A i \in 1..Len(results) :
                  results[i].error_msg = "" =>
                      /\ results[i].processed_keys = Cardinality(PersistentAtStart(i))
                      /\ results[i].iterations = task[i].ret.iterations

\* C4: the coordinator cannot fail. No store failure (connection, SCAN, TTL,
\* EXPIRE) takes a task or main down: a task that met one ends with the error
\* in its outcome, and main never panics.
C4_CoordinatorCannotFail ==
    /\ mainPc # "panicked"
    /\ \A r \in Tasks : task[r].pc # "panicked"

\* C5: bounded termination. Against cursors that never come back to "0" the
\* script fetches at most max_iterations pages, starts no page after the
\* cap, and once it has ended at the cap it has returned no error, exactly
\* max_iterations iterations and the count it had accumulated.
C5_BoundedTermination ==
    \A r \in Tasks :
        /\ task[r].iterations <= max_iterations
        /\ ops[r].scan <= max_iterations
        /\ task[r].pc = "scan" => task[r].iterations < max_iterations
        /\ (task[r].pc = "done" /\ task[r].iterations = max_iterations)
             => task[r].ret = [err |-> "", processed |-> task[r].processed,
                               iterations |-> max_iterations]

\* a dry run ended at the cap, having counted the same key page after page
C5_Witness ==
    \E r \in Tasks :
        /\ Succeeded(r)
        /\ dry_run
        /\ task[r].ret.iterations = max_iterations
        /\ task[r].ret.processed = max_iterations
        /\ mainPc = "done"

\* C6: complete sweep. A sweep that is no dry run and ended without error
\* below the cap reports as many keys as matched its pattern without an
\* expiration when it started; each of them now expires within ttl_seconds,
\* and the matching keys that had an expiration, or were absent, are as they
\* were.
C6_CompleteSweep ==
    \A r \in Tasks :
        (Succeeded(r) /\ ~dry_run /\ task[r].ret.iterations < max_iterations)
        => /\ task[r].ret.processed = Cardinality(PersistentAtStart(r))
           /\ \A k \in PersistentAtStart(r) :
                 store[k] >= 1 /\ store[k] <= configs[r].ttl_seconds
           /\ \A k \in Keys \ PersistentAtStart(r) : store[k] = snap[r][k]

\* a sweep of "*" over two pages that return a1 twice: a1 persistent, b1
\* expiring already
C6_Witness ==
    \E r \in Tasks :
        /\ Succeeded(r)
        /\ ~dry_run
        /\ Pattern(r) = "*"
        /\ ops[r].scan = 2
        /\ ops[r].ttl >= 3
        /\ snap[r]["a1"] = NoTTL
        /\ snap[r]["b1"] = 7
        /\ task[r].ret.processed = 1
        /\ store["b1"] = 7

\* C7: fan-in and ordering. Every outcome main has collected is that of the
\* task at the same position, and once main is past the join loop every task
\* has completed and there is one outcome per rule, in the rules' order.
C7_FanInOrder ==
    /\ \A i \in 1..Len(results) :
          /\ i <= task_count
          /\ task[i].pc = "done"
          /\ results[i] = ProcessingResult(configs[i], task[i].ret)
    /\ mainPc = "done" =>
          /\ Len(results) = task_count
          /\ \A r \in Tasks : task[r].pc = "done"

\* two different rules, the second completed first
C7_Witness ==
    /\ mainPc = "done"
    /\ task_count = 2
    /\ configs[1] # configs[2]
    /\ finishOrder = <<2, 1>>
    /\ results[1].processed_keys # results[2].processed_keys

\* C8 as claimed: an outcome with an error carries the counts the script had
\* accumulated when the store call failed.
C8_CountsOnFailure ==
    \A r \in Tasks :
        (task[r].pc = "done" /\ task[r].ret.err \in {"scan", "ttl", "expire"})
        => /\ task[r].ret.processed = task[r].processed
           /\ task[r].ret.iterations = task[r].iterations

\* C8 as amended: an outcome with an error carries that error together with
\* keysProcessed = 0 and iterations = 0, whatever the script had accumulated.
C8_CountsZeroOnFailure ==
    /\ \A r \in Tasks :
          Failed(r) => task[r].ret.processed = 0 /\ task[r].ret.iterations = 0
    /\ \A i \in 1..Len(results) :
          results[i].error_msg # "" =>
              results[i].processed_keys = 0 /\ results[i].iterations = 0

\* a TTL or EXPIRE call failed on the second page, after a key was counted and
\* expired
C8_Witness ==
    \E r \in Tasks :
        /\ Failed(r)
        /\ task[r].ret.err \in {"ttl", "expire"}
        /\ task[r].iterations = 2
        /\ task[r].processed >= 1
        /\ ops[r].expire >= 1
        /\ Len(results) = 1
        /\ results[1].error_msg # ""

\* the previous run of the process returned the outcome of a sweep that ended
\* without error below the cap
PrevComplete ==
    /\ run >= 2
    /\ prev.returned
    /\ Len(prev.results) = 1
    /\ prev.results[1].error_msg = ""
    /\ prev.results[1].iterations < max_iterations

\* C9: idempotence. In the run that follows a complete sweep that was no dry
\* run, the same sweep, again no dry run, counts no key and issues no EXPIRE.
C9_Idempotence ==
    (PrevComplete /\ ~prev.dry_run /\ ~dry_run)
    => \A r \in Tasks :
          /\ task[r].processed = 0
          /\ task[r].ret.processed = 0
          /\ ops[r].expire = 0

\* the first run expired keys, the second went over them and counted none
C9_Witness ==
    /\ PrevComplete /\ ~prev.dry_run /\ ~dry_run
    /\ prev.results[1].processed_keys >= 1
    /\ mainPc = "done"
    /\ \E r \in Tasks : Succeeded(r) /\ ops[r].ttl >= 2
    /\ results[1].processed_keys = 0

\* C10: dry run predicts the real run. After a complete dry run, the run of
\* the same sweep that is no dry run, on the store as the dry run left it,
\* reports exactly as many keys as the dry run did.
C10_DryRunPredicts ==
    (PrevComplete /\ prev.dry_run /\ ~dry_run)
    => \A r \in Tasks :
          (Succeeded(r) /\ task[r].ret.iterations < max_iterations)
          => /\ task[r].ret.processed >= prev.results[1].processed_keys
             /\ task[r].ret.processed = prev.results[1].processed_keys

\* the pattern of rule r matched no key of the store when its script started
EmptyMatch(r) == \A k \in Keys : Matches(Pattern(r), k) => snap[r][k] = Absent

\* C11: empty match. Against a store that answers every call, the sweep of a
\* rule whose pattern matches no key ends with no error, keysProcessed = 0 and
\* iterations >= 1, having issued at least one SCAN.
C11_EmptyMatch ==
    \A r \in Tasks :
        (task[r].pc = "done" /\ EmptyMatch(r))
        => /\ task[r].ret.err = ""
           /\ task[r].ret.processed = 0
           /\ task[r].ret.iterations >= 1
           /\ ops[r].scan >= 1
           /\ ops[r].expire = 0

\* rule ra on a store without a1: two pages fetched, nothing counted, and the
\* persistent key b1, which "a*" does not match, is still persistent
C11_Witness ==
    /\ mainPc = "done"
    /\ ~dry_run
    /\ Pattern(1) = "a*"
    /\ EmptyMatch(1)
    /\ store["b1"] = NoTTL
    /\ results[1].processed_keys = 0
    /\ results[1].iterations = 2
    /\ results[1].error_msg = ""

\* C12: overall status. Once main has derived the colour, it is the colour of
\* success exactly if no collected outcome carries an error (so it is for no
\* outcome at all), and the outcomes are still what the tasks returned.
C12_OverallStatus ==
    mainPc = "done" =>
        /\ color \in {Green, Red}
        /\ color = Green <=> \A i \in 1..Len(results) : results[i].error_msg = ""
        /\ results = <<>> => color = Green
        /\ \A i \in 1..Len(results) :
              results[i] = [config |-> configs[i],
                            processed_keys |-> task[i].ret.processed,
                            iterations |-> task[i].ret.iterations,
                            error_msg |-> task[i].ret.err]

\* two outcomes, the first with an error and the second without: degraded
C12_Witness ==
    /\ mainPc = "done"
    /\ Len(results) = 2
    /\ results[1].error_msg # ""
    /\ results[2].error_msg = ""
    /\ results[2].processed_keys >= 1
    /\ color = Red

\* C13: fail-fast within a sweep. The step on which a store call of a sweep
\* fails ends the sweep with that one error, issues the failed call once and
\* undoes no expiration; from then on the sweep issues no store call and
\* neither its outcome nor the store changes for the rest of the run.
C13_FailFast ==
    [][\A r \in Tasks :
          /\ (task[r].ret.err # "" /\ run' = run)
                => /\ ops'[r] = ops[r]
                   /\ task'[r] = task[r]
                   /\ store' = store
          /\ (task[r].ret.err = "" /\ task'[r].ret.err # "")
                => /\ task'[r].pc = "done"
                   /\ task'[r].ret.err \in {"invoke", "scan", "ttl", "expire"}
                   /\ store' = store
                   /\ ops'[r].scan = ops[r].scan + (IF task'[r].ret.err = "scan" THEN 1 ELSE 0)
                   /\ ops'[r].ttl = ops[r].ttl
                         + (IF task'[r].ret.err \in {"ttl", "expire"} THEN 1 ELSE 0)
                   /\ ops'[r].expire = ops[r].expire
                         + (IF task'[r].ret.err = "expire" THEN 1 ELSE 0)
      ]_vars

\* a sweep of "*" expired a1, then its EXPIRE of b1 failed: a1 keeps its
\* expiration, b1 is persistent, and main has collected the error
C13_Witness ==
    \E r \in Tasks :
        /\ Failed(r)
        /\ task[r].ret.err = "expire"
        /\ ops[r].expire = 2
        /\ snap[r]["a1"] = NoTTL
        /\ snap[r]["b1"] = NoTTL
        /\ store["a1"] = configs[r].ttl_seconds
        /\ store["b1"] = NoTTL
        /\ mainPc = "done"

\* C14: coordinator liveness. When no step is left to take (every store call
\* has returned, with a result or a failure), every launched sweep has
\* produced its outcome and main has returned.
C14_CoordinatorLiveness ==
    (~ENABLED Next) =>
        /\ mainPc = "done"
        /\ \A r \in Tasks : task[r].pc = "done"
        /\ Len(results) = task_count

\* C15: elapsed covers the sweep. The interval whose length a completed task
\* reports as its execution time starts before the first store call of its
\* sweep and ends after the last one.
C15_ElapsedCoversSweep ==
    \A r \in Tasks :
        task[r].pc = "done" =>
            /\ task[r].start = 0
            /\ task[r].start + task[r].execution_time >= Now(r)

\* the script of task r is running at the store
InScript(r) == task[r].pc \in {"scan", "keys"}
\* key k had no expiration when the run began: the store only ever changes a
\* key without expiration, and a task that has not started its script yet
\* holds the store of the beginning
PersistentAtRunStart(k) == \E r \in Tasks : snap[r][k] = NoTTL
\* the keys that count in the keysProcessed of the outcome of task r
CountedBy(r) == IF Succeeded(r) THEN ops[r].counted ELSE {}

\* C16: cross-rule atomicity. At most one script is running at the store at
\* any time, and it is the one the store serves; and when the run is no dry
\* run, a key that had no expiration when the run began had its expiration set
\* by at most one rule and counts in the keysProcessed of at most one rule.
C16_CrossRuleAtomicity ==
    /\ \A r \in Tasks : InScript(r) => scriptOwner = r
    /\ Cardinality({r \in Tasks : InScript(r)}) <= 1
    /\ ~dry_run =>
          \A k \in Keys :
              PersistentAtRunStart(k) =>
                  /\ Cardinality({r \in Tasks : k \in ops[r].expired}) <= 1
                  /\ Cardinality({r \in Tasks : k \in CountedBy(r)}) <= 1

\* rules "a*" and "*" over a persistent a1, the sweep of "*" first: it took a1
\* and b1, and the sweep of "a*" found nothing left
C16_Witness ==
    /\ mainPc = "done"
    /\ ~dry_run
    /\ configs = <<RuleA, RuleAll>>
    /\ finishOrder = <<2, 1>>
    /\ ops[2].expired = {"a1", "b1"}
    /\ ops[1].ttl = 1
    /\ ops[1].expired = {}
    /\ results[1].processed_keys = 0
    /\ results[2].processed_keys = 2
    /\ store["a1"] = RuleAll.ttl_seconds

\* C17: count matches mutations. The outcome of a sweep that ended without
\* error reports, when the run is no dry run, as many keys as the sweep issued
\* EXPIRE calls; in a dry run the sweep issued no EXPIRE and the outcome
\* reports as many keys as TTL replies were -1.
C17_CountMatchesMutations ==
    \A r \in Tasks :
        Succeeded(r) =>
            /\ ~dry_run => task[r].ret.processed = ops[r].expire
            /\ dry_run => ops[r].expire = 0 /\ task[r].ret.processed = ops[r].noTtl
            /\ mainPc = "done" => results[r].processed_keys = task[r].ret.processed

\* a dry run over two pages got a persistent key twice and counted it twice
C17_Witness ==
    /\ dry_run
    /\ mainPc = "done"
    /\ \E r \in Tasks :
          /\ Succeeded(r)
          /\ ops[r].scan = 2
          /\ ops[r].noTtl = 2
          /\ ops[r].counted = {"a1"}
          /\ ops[r].expire = 0
          /\ results[r].processed_keys = 2

\* a real run expired two keys and reports two
C17_WitnessRealRun ==
    /\ ~dry_run
    /\ mainPc = "done"
    /\ \E r \in Tasks :
          /\ Succeeded(r)
          /\ ops[r].expire = 2
          /\ ops[r].ttl >= 3
          /\ results[r].processed_keys = 2

====
